---- MODULE Spec2Model ----
(***************************************************************************)
(* Model of shiningxy/dolphiner, src/utils:                                *)
(*   processing.py  simplify_route: the column check, the extraction of    *)
(*                  the (lat, lon) track, the call of rdp and the          *)
(*                  re-wrapping of its result as a table;                  *)
(*   modeling.py    get_ship_base_info_by_mmsi,                            *)
(*                  get_ship_performance_by_mmsi: filter a table by mmsi;  *)
(*   probleming.py  get_ship_potential_optimizations: index a loaded JSON  *)
(*                  object by mmsi.                                        *)
(*                                                                         *)
(* Coordinates are integers of a small grid.  A tolerance is an integer    *)
(* number of HALVES (epsilon = h / 2), so that 0, 0.5, 1, ... are exact.   *)
(* A distance is kept as the fraction of its square, [n, d] for            *)
(* sqrt(n / d); all comparisons are made by cross-multiplication, which    *)
(* is exact.  On integer coordinates of this size the floating-point       *)
(* comparisons of the program agree with the exact ones (cross products    *)
(* are exact integers, the tolerances are binary fractions).               *)
(***************************************************************************)
EXTENDS Integers, Sequences, FiniteSets, TLC

(* ------------------------------ bounds --------------------------------- *)
MaxLat == 1
MaxLon == 2
MaxLen == 3
MaxRows == 2
MaxEps == 2
MaxMmsi == 3

VARIABLES data, epsilon, pc, result, epsilon2, result2, result3,
          base_info_xlsx, performance_xlsx, optimizations_json, lookup

vars == <<data, epsilon, pc, result, epsilon2, result2, result3,
          base_info_xlsx, performance_xlsx, optimizations_json, lookup>>

lookupVars == <<base_info_xlsx, performance_xlsx, optimizations_json, lookup>>

None == [status |-> "none"]

(* ------------------------- points, routes, tables ---------------------- *)
Points == (0..MaxLat) \X (0..MaxLon)

RoutesUpTo(len) == UNION {[1..n -> Points] : n \in 0..len}

Routes == RoutesUpTo(MaxLen)

\* the routes and those of one more point that leave from the origin
LongRoutes ==
  Routes \cup {<<(<<0, 0>>)>> \o pts : pts \in [1..MaxLen -> Points]}

\* short routes, for the tables that lack a column
ShortRoutes == RoutesUpTo(MaxRows)

\* tolerances in halves; -1 stands for a negative tolerance (-0.5)
Epsilons == (-1)..MaxEps

ColumnSets == {{"lat", "lon"}, {"lat", "lon", "speed"}, {"lat"}, {"lon"}}

\* a table (pandas.DataFrame): its column names and its rows, each row a
\* function from the column names to a value
MkTable(cols, pts) ==
  [columns |-> cols,
   rows |-> [i \in 1..Len(pts) |->
               [c \in cols |-> IF c = "lat" THEN pts[i][1]
                               ELSE IF c = "lon" THEN pts[i][2]
                               ELSE 0]]]

\* (variant: the last row is lost in the extraction)
Track_droplast(tbl) ==
  [i \in 1..(Len(tbl.rows) - 1) |-> <<tbl.rows[i]["lat"], tbl.rows[i]["lon"]>>]

\* data[["lat", "lon"]].values : the rows as (lat, lon) pairs, in order
Track(tbl) ==
  [i \in 1..Len(tbl.rows) |-> <<tbl.rows[i]["lat"], tbl.rows[i]["lon"]>>]

\* (variant: the two columns are named in the wrong order)
DataFrame_swapped(track) ==
  [columns |-> {"lat", "lon"},
   rows |-> [i \in 1..Len(track) |-> [lat |-> track[i][2], lon |-> track[i][1]]]]

\* pd.DataFrame(simplified_track, columns=["lat", "lon"])
DataFrame(track) ==
  [columns |-> {"lat", "lon"},
   rows |-> [i \in 1..Len(track) |-> [lat |-> track[i][1], lon |-> track[i][2]]]]

(* --------------------- segment distance calculator --------------------- *)
Cross(u, v) == u[1] * v[2] - u[2] * v[1]

Norm2(u) == u[1] * u[1] + u[2] * u[2]

Minus(p, q) == <<p[1] - q[1], p[2] - q[2]>>

\* (variant: no fallback for start = end; the division by a zero length
\* gives a value that exceeds nothing)
pldist_nofallback(point, start, end) ==
  IF start = end
  THEN [n |-> 0, d |-> 1]
  ELSE [n |-> Cross(Minus(end, start), Minus(start, point))
               * Cross(Minus(end, start), Minus(start, point)),
        d |-> Norm2(Minus(end, start))]

\* the square of the distance of point from the line through start and end,
\* as a fraction; the distance to start when start = end
pldist(point, start, end) ==
  IF start = end
  THEN [n |-> Norm2(Minus(point, start)), d |-> 1]
  ELSE [n |-> Cross(Minus(end, start), Minus(start, point))
               * Cross(Minus(end, start), Minus(start, point)),
        d |-> Norm2(Minus(end, start))]

\* x > y for two distances
DistGt(x, y) == x.n * y.d > y.n * x.d

\* (variant: dist >= epsilon)
Exceeds_ge(dist, h) == IF h < 0 THEN TRUE ELSE 4 * dist.n >= h * h * dist.d

\* dist > epsilon, epsilon = h / 2; a distance is never negative
Exceeds(dist, h) == IF h < 0 THEN TRUE ELSE 4 * dist.n > h * h * dist.d

(* -------------------------- recursive simplifier ----------------------- *)
\* index of the interior point of M with the maximum distance from the line
\* through the first and the last point; the first such index on ties
MaxIndex(M) ==
  LET n == Len(M)
      dst(i) == pldist(M[i], M[1], M[n])
  IN CHOOSE i \in 2..(n - 1) :
       /\ \A j \in 2..(i - 1) : DistGt(dst(i), dst(j))
       /\ \A j \in (i + 1)..(n - 1) : ~DistGt(dst(j), dst(i))

\* (variant: the split point is kept from both partial results)
Join_dup(r1, r2) == r1 \o r2

\* the two partial results joined, the split point kept once
Join(r1, r2) == SubSeq(r1, 1, Len(r1) - 1) \o r2

RECURSIVE rdp(_, _)
rdp(M, h) ==
  IF Len(M) < 3 THEN M
  ELSE LET n == Len(M)
           index == MaxIndex(M)
       IN IF Exceeds(pldist(M[index], M[1], M[n]), h)
          THEN Join(rdp(SubSeq(M, 1, index), h), rdp(SubSeq(M, index, n), h))
          ELSE <<M[1], M[n]>>

(* ------------------------------ simplify_route ------------------------- *)
\* what the call rdp(track, epsilon=epsilon) can end in.  For a tolerance
\* >= 0 it returns the simplified track.  Nothing checks the sign of the
\* tolerance: for a negative one the test "dmax > epsilon" succeeds on every
\* span, so the call either returns every point or never returns.
rdp_call(track, h) ==
  IF h >= 0
  THEN {[status |-> "ok", track |-> rdp(track, h)]}
  ELSE {[status |-> "ok", track |-> rdp(track, h)],
        [status |-> "no_return", track |-> <<>>]}

\* (variant: only the 'lat' column is required)
simplify_route_latonly(tbl, h) ==
  IF ~({"lat"} \subseteq tbl.columns)
  THEN {[status |-> "ValueError", rdp_called |-> FALSE]}
  ELSE IF ~("lon" \in tbl.columns)
  THEN {[status |-> "KeyError", rdp_called |-> FALSE]}
  ELSE {IF r.status = "ok"
        THEN [status |-> "ok", rdp_called |-> TRUE, value |-> DataFrame(r.track)]
        ELSE [status |-> r.status, rdp_called |-> TRUE]
        : r \in rdp_call(Track(tbl), h)}

\* (variant: the tolerance is passed with the wrong sign)
simplify_route_neg(tbl, h) ==
  IF ~({"lat", "lon"} \subseteq tbl.columns)
  THEN {[status |-> "ValueError", rdp_called |-> FALSE]}
  ELSE {IF r.status = "ok"
        THEN [status |-> "ok", rdp_called |-> TRUE, value |-> DataFrame(r.track)]
        ELSE [status |-> r.status, rdp_called |-> TRUE]
        : r \in rdp_call(Track(tbl), 0 - h)}

\* (variant: the table is built from track, not from simplified_track)
simplify_route_unsimplified(tbl, h) ==
  IF ~({"lat", "lon"} \subseteq tbl.columns)
  THEN {[status |-> "ValueError", rdp_called |-> FALSE]}
  ELSE {IF r.status = "ok"
        THEN [status |-> "ok", rdp_called |-> TRUE, value |-> DataFrame(Track(tbl))]
        ELSE [status |-> r.status, rdp_called |-> TRUE]
        : r \in rdp_call(Track(tbl), h)}

\* the outcomes of simplify_route(data, epsilon): the ValueError of the
\* column check, or what the call of rdp ends in, its track as a table
simplify_route(tbl, h) ==
  IF ~({"lat", "lon"} \subseteq tbl.columns)
  THEN {[status |-> "ValueError", rdp_called |-> FALSE]}
  ELSE {IF r.status = "ok"
        THEN [status |-> "ok", rdp_called |-> TRUE, value |-> DataFrame(r.track)]
        ELSE [status |-> r.status, rdp_called |-> TRUE]
        : r \in rdp_call(Track(tbl), h)}

(* ------------------------------- lookups ------------------------------- *)
Mmsis == 1..MaxMmsi

\* a Python int, and the string that is its decimal form
PyInt(m) == <<"int", m>>
PyStr(m) == <<"str", m>>

\* the sheets: one row for each vessel of some set of vessels
Sheets == {{[mmsi |-> m] : m \in S} : S \in SUBSET Mmsis}

\* the objects json.load can return for a file keyed by vessel: the keys of
\* a JSON object are strings
JsonObjects == UNION {[{PyStr(m) : m \in S} -> {"speeds"}] : S \in SUBSET Mmsis}

\* data[data["mmsi"] == mmsi] : the rows whose mmsi equals the argument
FilterByMmsi(tbl, mmsi) == {row \in tbl : PyInt(row.mmsi) = mmsi}

get_ship_base_info_by_mmsi(mmsi) ==
  [fn |-> "base_info", mmsi |-> mmsi, status |-> "ok",
   value |-> FilterByMmsi(base_info_xlsx, mmsi)]

get_ship_performance_by_mmsi(mmsi) ==
  [fn |-> "performance", mmsi |-> mmsi, status |-> "ok",
   value |-> FilterByMmsi(performance_xlsx, mmsi)]

\* json.dumps(data[mmsi]) on the object json.load returned
get_ship_potential_optimizations(mmsi) ==
  IF mmsi \in DOMAIN optimizations_json
  THEN [fn |-> "optimizations", mmsi |-> mmsi, status |-> "ok",
        value |-> optimizations_json[mmsi]]
  ELSE [fn |-> "optimizations", mmsi |-> mmsi, status |-> "KeyError"]

(* ------------------------------ state machine -------------------------- *)
EmptyTable == MkTable({"lat", "lon"}, <<>>)

RouteIdle ==
  /\ data = EmptyTable /\ epsilon = 0 /\ pc = "idle"
  /\ result = None /\ epsilon2 = 0 /\ result2 = None /\ result3 = None

LookupIdle ==
  /\ base_info_xlsx = {} /\ performance_xlsx = {}
  /\ optimizations_json = <<>> /\ lookup = None

RouteStart(tables) ==
  /\ data \in tables
  /\ epsilon = 0 /\ pc = "start"
  /\ result = None /\ epsilon2 = 0 /\ result2 = None /\ result3 = None
  /\ LookupIdle

\* a route table with both coordinate columns, not yet simplified
Init == RouteStart({MkTable({"lat", "lon"}, pts) : pts \in Routes})

\* the same, the routes one point longer
InitLong == RouteStart({MkTable({"lat", "lon"}, pts) : pts \in LongRoutes})

\* tables with and without the coordinate columns
InitColumns ==
  RouteStart({MkTable(cols, pts) : cols \in ColumnSets, pts \in ShortRoutes})

\* the files of the lookups, nothing looked up yet
InitLookup ==
  /\ RouteIdle
  /\ base_info_xlsx \in Sheets
  /\ performance_xlsx \in Sheets
  /\ optimizations_json \in JsonObjects
  /\ lookup = None

\* simplified_route = simplify_route(cleaned_route, epsilon)
SimplifyRoute(h) ==
  /\ pc = "start"
  /\ epsilon' = h
  /\ result' \in simplify_route(data, h)
  /\ pc' = "simplified"
  /\ UNCHANGED <<data, epsilon2, result2, result3>>
  /\ UNCHANGED lookupVars

\* the same route simplified with a second tolerance, not below the first
SimplifyRouteAgain(h2) ==
  /\ pc = "simplified" /\ epsilon >= 0 /\ h2 >= epsilon
  /\ epsilon2' = h2
  /\ result2' \in simplify_route(data, h2)
  /\ pc' = "compared"
  /\ UNCHANGED <<data, epsilon, result, result3>>
  /\ UNCHANGED lookupVars

\* the simplified route simplified once more with the same tolerance
Resimplify ==
  /\ pc = "simplified" /\ result.status = "ok" /\ epsilon >= 0
  /\ result3' \in simplify_route(result.value, epsilon)
  /\ pc' = "resimplified"
  /\ UNCHANGED <<data, epsilon, result, epsilon2, result2>>
  /\ UNCHANGED lookupVars

GetShipBaseInfoByMmsi(m) ==
  /\ pc = "idle" /\ lookup = None
  /\ lookup' = get_ship_base_info_by_mmsi(PyInt(m))
  /\ UNCHANGED <<data, epsilon, pc, result, epsilon2, result2, result3>>
  /\ UNCHANGED <<base_info_xlsx, performance_xlsx, optimizations_json>>

GetShipPerformanceByMmsi(m) ==
  /\ pc = "idle" /\ lookup = None
  /\ lookup' = get_ship_performance_by_mmsi(PyInt(m))
  /\ UNCHANGED <<data, epsilon, pc, result, epsilon2, result2, result3>>
  /\ UNCHANGED <<base_info_xlsx, performance_xlsx, optimizations_json>>

GetShipPotentialOptimizations(m) ==
  /\ pc = "idle" /\ lookup = None
  /\ lookup' = get_ship_potential_optimizations(PyInt(m))
  /\ UNCHANGED <<data, epsilon, pc, result, epsilon2, result2, result3>>
  /\ UNCHANGED <<base_info_xlsx, performance_xlsx, optimizations_json>>

Next ==
  \/ \E h \in Epsilons : SimplifyRoute(h)
  \/ \E h2 \in 0..MaxEps : SimplifyRouteAgain(h2)
  \/ Resimplify

NextSimplify == \E h \in Epsilons : SimplifyRoute(h)

NextLookup ==
  \/ \E m \in Mmsis : GetShipBaseInfoByMmsi(m)
  \/ \E m \in Mmsis : GetShipPerformanceByMmsi(m)
  \/ \E m \in Mmsis : GetShipPotentialOptimizations(m)

\* simplification, comparison and re-simplification of routes
Spec == Init /\ [][Next]_vars

\* simplification of the longer routes
SpecLong == InitLong /\ [][NextSimplify]_vars

\* simplify_route on tables with and without the coordinate columns
SpecColumns == InitColumns /\ [][NextSimplify]_vars

\* the lookups by vessel identifier
SpecLookup == InitLookup /\ [][NextLookup]_vars

(* ------------------------- vocabulary of the claims -------------------- *)
\* the points of M at the indices K, in index order
SelSeq(M, K) ==
  [i \in 1..Cardinality(K) |->
     M[CHOOSE k \in K : Cardinality({j \in K : j <= k}) = i]]

PrevKept(K, i) == CHOOSE k \in K : k < i /\ \A j \in K : j < i => j <= k
NextKept(K, i) == CHOOSE k \in K : k > i /\ \A j \in K : j > i => j >= k

\* K keeps the first and the last point of a non-empty M
KeepsEnds(M, K) == Len(M) >= 1 => (1 \in K /\ Len(M) \in K)

\* twice the area of the triangle p, a, b
Area2(p, a, b) ==
  (a[1] - p[1]) * (b[2] - p[2]) - (a[2] - p[2]) * (b[1] - p[1])

SqDist(p, q) == (p[1] - q[1]) * (p[1] - q[1]) + (p[2] - q[2]) * (p[2] - q[2])

\* the distance of p from the line through a and b (from a when a = b) is
\* greater than h / 2:  area / base > h / 2, squared
Farther(p, a, b, h) ==
  IF a = b
  THEN 4 * SqDist(p, a) > h * h
  ELSE 4 * Area2(p, a, b) * Area2(p, a, b) > h * h * SqDist(a, b)

\* every point of M not in K is within the tolerance of the line through the
\* two points of K enclosing it
WithinTolerance(M, K, h) ==
  \A i \in (1..Len(M)) \ K :
    ~Farther(M[i], M[PrevKept(K, i)], M[NextKept(K, i)], h)

\* every interior point of K is farther than the tolerance from the line
\* through some two points of K enclosing it
EachKeptNeeded(M, K, h) ==
  \A k \in K \ {1, Len(M)} :
    \E a \in K, b \in K : a < k /\ k < b /\ Farther(M[k], M[a], M[b], h)

\* a smaller selection of M than size that keeps the ends and the tolerance
SmallerExists(M, size, h) ==
  \E K \in SUBSET (1..Len(M)) :
    KeepsEnds(M, K) /\ WithinTolerance(M, K, h) /\ Cardinality(K) < size

\* simplify_route was called with a tolerance >= 0 and returned
Simplified == pc \in {"simplified", "compared", "resimplified"}
              /\ result.status = "ok" /\ epsilon >= 0

In == Track(data)
Out == Track(result.value)

Dot(u, v) == u[1] * v[1] + u[2] * v[2]

Collinear(p, q, r) == Area2(p, q, r) = 0

\* q lies on the segment from p to r, strictly between the two
StrictlyBetween(p, q, r) ==
  /\ Area2(p, q, r) = 0
  /\ Dot(<<q[1] - p[1], q[2] - p[2]>>, <<r[1] - q[1], r[2] - q[2]>>) > 0

C2_MinimalSubset == Simplified => ~SmallerExists(In, Len(Out), epsilon)

\* C2 amended: the output need not be minimal; every retained interior point
\* is farther than epsilon from the line through two retained points that
\* enclose it, and for routes of at most 3 points the output is minimal.
C2_EachKeptNeeded ==
  Simplified =>
    /\ \E K \in SUBSET (1..Len(In)) :
         KeepsEnds(In, K) /\ SelSeq(In, K) = Out /\ EachKeptNeeded(In, K, epsilon)
    /\ Len(In) <= 3 => ~SmallerExists(In, Len(Out), epsilon)

\* a route of 4 points is returned whole although 3 of them would do
C2_Witness ==
  /\ Simplified /\ Len(In) = 4 /\ Len(Out) = 4
  /\ SmallerExists(In, 4, epsilon)

\* C3: the output is an order-preserving subsequence of the input: its
\* points are input points, unchanged, in input order, each index used at
\* most once, and it is no longer than the input.
C3_Subsequence ==
  Simplified =>
    /\ Len(Out) <= Len(In)
    /\ result.value.columns = {"lat", "lon"}
    /\ \E K \in SUBSET (1..Len(In)) : SelSeq(In, K) = Out

\* the route was split at its middle point, which is returned once
C3_Witness ==
  /\ Simplified /\ Len(In) = 3 /\ Len(Out) = 3
  /\ In[1] # In[2] /\ In[2] # In[3] /\ In[2][1] # In[2][2]

\* C4: for a non-empty route the output starts with the first point of the
\* input and ends with its last point.
C4_Endpoints ==
  (Simplified /\ Len(In) >= 1) =>
    /\ Len(Out) >= 1
    /\ Out[1] = In[1]
    /\ Out[Len(Out)] = In[Len(In)]

\* a route with distinct ends lost its interior point
C4_Witness ==
  /\ Simplified /\ Len(In) = 3 /\ Len(Out) = 2 /\ In[1] # In[3]

\* C5 as stated: a call with a negative epsilon ends in an invalid-tolerance
\* error raised before the simplifier runs, and returns no route.
C5_NegativeEpsilonRejected ==
  (pc = "simplified" /\ epsilon < 0) =>
    /\ result.status = "InvalidToleranceError"
    /\ ~result.rdp_called

Recorded ==
  IF lookup.fn = "base_info" THEN {row.mmsi : row \in base_info_xlsx}
  ELSE IF lookup.fn = "performance" THEN {row.mmsi : row \in performance_xlsx}
  ELSE {k[2] : k \in DOMAIN optimizations_json}

\* C8 as stated: a lookup for an identifier that has no record ends in an
\* error, never in a successful value.
C8_NotFoundIsError ==
  (lookup # None /\ lookup.mmsi[2] \notin Recorded) => lookup.status # "ok"

\* C9: simplify_route on a table without the 'lat' or the 'lon' column ends
\* in the structural error before the simplifier is invoked, whatever the
\* epsilon, and returns no route; with both columns the error never occurs.
C9_ColumnCheck ==
  pc = "simplified" =>
    /\ (~({"lat", "lon"} \subseteq data.columns)) <=> (result.status = "ValueError")
    /\ result.status = "ValueError" =>
         (~result.rdp_called /\ "value" \notin DOMAIN result)

\* a table without 'lon' was refused although the epsilon was negative
C9_Witness ==
  /\ pc = "simplified" /\ "lon" \notin data.columns /\ "lat" \in data.columns
  /\ epsilon < 0 /\ Len(data.rows) = 2
  /\ result.status = "ValueError"

HasCollinearTriple(M) ==
  \E i \in 1..(Len(M) - 2) : Collinear(M[i], M[i + 1], M[i + 2])

HasBetweenTriple(M) ==
  \E i \in 1..(Len(M) - 2) : StrictlyBetween(M[i], M[i + 1], M[i + 2])

====
